---- MODULE Spec2Model ----
(***************************************************************************)
(* ArgentaX: command registration and dispatch core.                       *)
(*                                                                         *)
(* Strings are sequences of one-character strings, so that str.lower,      *)
(* shlex.split and difflib work on characters as the Python code does.     *)
(* Router (src/router.py), App (src/app.py), HistoryPlugin (src/base.py),  *)
(* the exception hierarchy (src/exceptions.py).                            *)
(* The Command class (command/base.py) is not part                         *)
(* of the reviewed sources: its constructor, parse_args and execute are    *)
(* modelled from the specification (sections 3, 4.3, 4.4).                 *)
(***************************************************************************)
EXTENDS Integers, Sequences, FiniteSets, TLC

VARIABLES
    case_sensitive,   \* Router.case_sensitive, fixed at construction
    _commands,        \* Router._commands: key -> Command
    _aliases,         \* Router._aliases: alias key -> canonical key
    registered,       \* history: the Commands handed to add_command, in order
    flag_objects,     \* the Flag objects the application built itself, by identity
    plugins,          \* the HistoryPlugin objects, in the order they wrapped app.execute
    recorded,         \* history: the lines appended to a history since it was empty
    held,             \* the lists get_history returned to the caller
    adding,           \* the add_command call in progress on another thread, if any
    last              \* the last operation of the application and its outcome

vars == <<case_sensitive, _commands, _aliases, registered, flag_objects,
          plugins, recorded, held, adding, last>>

\* the state of the plugins and of the threads
others == <<plugins, recorded, held, adding>>

----------------------------------------------------------------------------
(* Bounds of the model *)

\* number of App.command registrations made by the user after construction
MaxRegs == 2

\* number of Router.add_command calls on a Router used on its own
MaxAdds == 3

\* largest max_history a HistoryPlugin is constructed with
MaxHistory == 2

\* number of lines appended to one history before it is cleared
MaxRecorded == 4

\* number of lists returned by get_history the caller keeps
MaxHeld == 1

\* number of HistoryPlugin objects initialized on one application
MaxPlugins == 2

----------------------------------------------------------------------------
(* Characters and strings *)

\* str.lower on the letters the model uses
UpperToLower ==
    ("F" :> "f") @@ ("E" :> "e") @@ ("T" :> "t") @@ ("C" :> "c") @@ ("H" :> "h")

lower_char(c) == IF c \in DOMAIN UpperToLower THEN UpperToLower[c] ELSE c

lower(s) == [i \in 1..Len(s) |-> lower_char(s[i])]

\* str.isspace on one character: the whitespace of str.split / shlex
Whitespace == {" ", "\t", "\r", "\n"}

has_whitespace(s) == \E i \in 1..Len(s) : s[i] \in Whitespace

\* str.strip() is empty
is_blank(s) == \A i \in 1..Len(s) : s[i] \in Whitespace

\* Python objects carry their class in the field py
None == [py |-> "NoneType"]

\* a str object
Str(s) == [py |-> "str", val |-> s]

\* the strings of the model
s_fetch  == <<"f", "e", "t", "c", "h">>
s_Fetch  == <<"F", "e", "t", "c", "h">>
s_FETCH  == <<"F", "E", "T", "C", "H">>
s_FeTcH  == <<"F", "e", "T", "c", "H">>
s_fettch == <<"f", "e", "t", "t", "c", "h">>
s_go     == <<"g", "o">>
s_g      == <<"g">>
s_a_b    == <<"a", " ", "b">>
s_exit   == <<"e", "x", "i", "t">>
s_help   == <<"h", "e", "l", "p">>
s_zz     == <<"z", "z">>
s_status == <<"s", "t", "a", "t", "u", "s">>
s_stats  == <<"s", "t", "a", "t", "s">>
s_start  == <<"s", "t", "a", "r", "t">>
s_state  == <<"s", "t", "a", "t", "e">>
s_stat   == <<"s", "t", "a", "t">>
s_etch   == <<"e", "t", "c", "h">>

----------------------------------------------------------------------------
(* Router: the command table *)

\* the key under which the table stores or looks up a name
fold(name) == IF case_sensitive THEN name ELSE lower(name)

\* A dict is the sequence of its items in insertion order.
dict_has(d, k) == \E i \in 1..Len(d) : d[i].key = k

\* d[k]
dict_get(d, k) == d[CHOOSE i \in 1..Len(d) : d[i].key = k].value

\* list(d.keys())
dict_keys(d) == [i \in 1..Len(d) |-> d[i].key]

\* dict assignment d[k] = v: a present key keeps its position
dict_set(d, k, v) ==
    IF dict_has(d, k)
    THEN [i \in 1..Len(d) |-> IF d[i].key = k THEN [key |-> k, value |-> v] ELSE d[i]]
    ELSE Append(d, [key |-> k, value |-> v])

\* the loop over command.aliases: self._aliases[alias_key] = name
RECURSIVE bind_aliases(_, _, _)
bind_aliases(al, aliases, name) ==
    IF aliases = <<>> THEN al
    ELSE bind_aliases(dict_set(al, fold(Head(aliases)), name), Tail(aliases), name)

\* the items of d whose value is not v
RECURSIVE dict_without_value(_, _)
dict_without_value(d, v) ==
    IF d = <<>> THEN <<>>
    ELSE (IF Head(d).value = v THEN <<>> ELSE <<Head(d)>>)
         \o dict_without_value(Tail(d), v)

\* add_command that first unbinds the aliases bound to the name so far
add_command_unbinding(cmds, al, command) ==
    [commands |-> dict_set(cmds, fold(command.name), command),
     aliases  |-> bind_aliases(dict_without_value(al, fold(command.name)),
                               command.aliases, fold(command.name))]

\* add_command with the canonical entry stored under the name as given
add_command_unfolded(cmds, al, command) ==
    [commands |-> dict_set(cmds, command.name, command),
     aliases  |-> bind_aliases(al, command.aliases, fold(command.name))]

\* Router.add_command: the two mappings after the call
add_command(cmds, al, command) ==
    LET name == fold(command.name)
    IN  [commands |-> dict_set(cmds, name, command),
         aliases  |-> bind_aliases(al, command.aliases, name)]

\* Router.get_command on given mappings
get_command_in(cmds, al, name0) ==
    LET name1 == fold(name0)
        name2 == IF dict_has(al, name1) THEN dict_get(al, name1) ELSE name1
    IN  IF dict_has(cmds, name2) THEN dict_get(cmds, name2) ELSE None

\* Router.get_command on the current table
get_command(name) == get_command_in(_commands, _aliases, name)

----------------------------------------------------------------------------
(* shlex.split(command_line): shlex(posix=True), whitespace_split=True,     *)
(* commenters=''                                                            *)

Quotes == {"'", "\""}
Escape == "\\"
\* shlex.escapedquotes: the quote inside which the backslash escapes
EscapedQuotes == {"\""}

\* shlex.read_token, called until end of input: the scan of s from position i
\* in lexer state `state`, with the token collected so far and the tokens
\* already returned.  ok = FALSE is the ValueError shlex raises.
RECURSIVE read_token(_, _, _, _, _, _, _)
read_token(s, i, state, escapedstate, token, quoted, out) ==
    IF i > Len(s)
    THEN IF state \in Quotes
         THEN [ok |-> FALSE, tokens |-> <<>>, error |-> "No closing quotation"]
         ELSE IF state = Escape
         THEN [ok |-> FALSE, tokens |-> <<>>, error |-> "No escaped character"]
         ELSE [ok |-> TRUE,
               tokens |-> IF token # <<>> \/ quoted THEN Append(out, token) ELSE out,
               error |-> ""]
    ELSE LET c == s[i] IN
         CASE state = " " ->
                IF c \in Whitespace
                THEN IF token # <<>> \/ quoted
                     THEN read_token(s, i + 1, " ", escapedstate, <<>>, FALSE,
                                     Append(out, token))
                     ELSE read_token(s, i + 1, " ", escapedstate, token, quoted, out)
                ELSE IF c = Escape
                THEN read_token(s, i + 1, Escape, "a", token, quoted, out)
                ELSE IF c \in Quotes
                THEN read_token(s, i + 1, c, escapedstate, token, quoted, out)
                ELSE read_token(s, i + 1, "a", escapedstate, <<c>>, quoted, out)
           [] state \in Quotes ->
                IF c = state
                THEN read_token(s, i + 1, "a", escapedstate, token, TRUE, out)
                ELSE IF c = Escape /\ state \in EscapedQuotes
                THEN read_token(s, i + 1, Escape, state, token, TRUE, out)
                ELSE read_token(s, i + 1, state, escapedstate, Append(token, c), TRUE,
                                out)
           [] state = Escape ->
                LET kept == IF escapedstate \in Quotes /\ c # Escape /\ c # escapedstate
                            THEN Append(token, Escape)
                            ELSE token
                IN  read_token(s, i + 1, escapedstate, escapedstate, Append(kept, c),
                               quoted, out)
           [] OTHER ->   \* state 'a': inside a word
                IF c \in Whitespace
                THEN IF token # <<>> \/ quoted
                     THEN read_token(s, i + 1, " ", escapedstate, <<>>, FALSE,
                                     Append(out, token))
                     ELSE read_token(s, i + 1, " ", escapedstate, token, quoted, out)
                ELSE IF c \in Quotes
                THEN read_token(s, i + 1, c, escapedstate, token, quoted, out)
                ELSE IF c = Escape
                THEN read_token(s, i + 1, Escape, "a", token, quoted, out)
                ELSE read_token(s, i + 1, "a", escapedstate, Append(token, c), quoted,
                                out)

shlex_split(s) == read_token(s, 1, " ", "a", <<>>, FALSE, <<>>)

----------------------------------------------------------------------------
(* difflib.get_close_matches(word, possibilities, n, cutoff)                *)

\* ord(c) for the characters of the model
ord ==
    (" " :> 32) @@ ("C" :> 67) @@ ("E" :> 69) @@ ("F" :> 70) @@ ("H" :> 72) @@
    ("T" :> 84) @@ ("a" :> 97) @@ ("b" :> 98) @@ ("c" :> 99) @@ ("e" :> 101) @@
    ("f" :> 102) @@ ("g" :> 103) @@ ("h" :> 104) @@ ("i" :> 105) @@
    ("l" :> 108) @@ ("o" :> 111) @@ ("p" :> 112) @@ ("r" :> 114) @@
    ("s" :> 115) @@ ("t" :> 116) @@ ("u" :> 117) @@ ("x" :> 120) @@ ("z" :> 122)

\* x < y on str: lexicographic by code point
RECURSIVE str_lt(_, _)
str_lt(x, y) ==
    IF y = <<>> THEN FALSE
    ELSE IF x = <<>> THEN TRUE
    ELSE IF Head(x) = Head(y) THEN str_lt(Tail(x), Tail(y))
    ELSE ord[Head(x)] < ord[Head(y)]

Min(m, n) == IF m <= n THEN m ELSE n

\* SequenceMatcher.find_longest_match over the whole of a and b (no junk:
\* isjunk is None and autojunk needs 200 elements): the longest block
\* a[i..i+k-1] = b[j..j+k-1], the earliest in a, then the earliest in b
find_longest_match(a, b) ==
    LET blocks == {x \in (1..Len(a)) \X (1..Len(b)) \X (1..Min(Len(a), Len(b))) :
                      /\ x[1] + x[3] - 1 <= Len(a)
                      /\ x[2] + x[3] - 1 <= Len(b)
                      /\ \A d \in 0..(x[3] - 1) : a[x[1] + d] = b[x[2] + d]}
    IN  IF blocks = {} THEN <<1, 1, 0>>
        ELSE CHOOSE x \in blocks : \A y \in blocks :
                 \/ x[3] > y[3]
                 \/ x[3] = y[3] /\ x[1] < y[1]
                 \/ x[3] = y[3] /\ x[1] = y[1] /\ x[2] <= y[2]

\* the size of the longest matching block alone
matching_blocks_longest_only(a, b) == find_longest_match(a, b)[3]

\* sum of the sizes of SequenceMatcher.get_matching_blocks(): the longest
\* block, then the same to its left and to its right
RECURSIVE matching_blocks_size(_, _)
matching_blocks_size(a, b) ==
    LET m == find_longest_match(a, b) IN
    IF m[3] = 0 THEN 0
    ELSE m[3]
         + matching_blocks_size(SubSeq(a, 1, m[1] - 1), SubSeq(b, 1, m[2] - 1))
         + matching_blocks_size(SubSeq(a, m[1] + m[3], Len(a)),
                                SubSeq(b, m[2] + m[3], Len(b)))

\* a ratio 2.0 * matches / length is kept as the pair <<matches, length>>;
\* _calculate_ratio returns 1.0 when length is 0
ratio(a, b) == <<matching_blocks_size(a, b), Len(a) + Len(b)>>

\* SequenceMatcher.real_quick_ratio
real_quick_ratio(a, b) == <<Min(Len(a), Len(b)), Len(a) + Len(b)>>

Count(s, c) == Cardinality({i \in 1..Len(s) : s[i] = c})

RECURSIVE SumOver(_, _)
SumOver(f, S) ==
    IF S = {} THEN 0 ELSE LET x == CHOOSE y \in S : TRUE IN f[x] + SumOver(f, S \ {x})

\* SequenceMatcher.quick_ratio: size of the multiset intersection
quick_ratio(a, b) ==
    LET chars == {a[i] : i \in 1..Len(a)}
    IN  <<SumOver([c \in chars |-> Min(Count(a, c), Count(b, c))], chars),
          Len(a) + Len(b)>>

\* r >= cutoff, the cutoff in hundredths
ratio_ge(r, cutoff) ==
    IF r[2] = 0 THEN 100 >= cutoff ELSE 200 * r[1] >= cutoff * r[2]

\* r1 < r2 on two ratios
ratio_lt(r1, r2) ==
    LET n1 == IF r1[2] = 0 THEN <<1, 2>> ELSE r1
        n2 == IF r2[2] = 0 THEN <<1, 2>> ELSE r2
    IN  n1[1] * n2[2] < n2[1] * n1[2]

ratio_eq(r1, r2) == ~ratio_lt(r1, r2) /\ ~ratio_lt(r2, r1)

\* tuple comparison (score, x) < (score', x')
entry_lt(e1, e2) ==
    \/ ratio_lt(e1.score, e2.score)
    \/ ratio_eq(e1.score, e2.score) /\ str_lt(e1.x, e2.x)

\* sorted(result, reverse=True): stable insertion, largest first
RECURSIVE insert_desc(_, _)
insert_desc(e, sorted) ==
    IF sorted = <<>> THEN <<e>>
    ELSE IF entry_lt(Head(sorted), e) THEN <<e>> \o sorted
    ELSE <<Head(sorted)>> \o insert_desc(e, Tail(sorted))

RECURSIVE sorted_desc(_)
sorted_desc(result) ==
    IF result = <<>> THEN <<>>
    ELSE insert_desc(result[Len(result)], sorted_desc(SubSeq(result, 1, Len(result) - 1)))

\* the first n entries, not sorted
nlargest_unsorted(n, result) == SubSeq(result, 1, Min(n, Len(result)))

\* heapq.nlargest(n, result)
nlargest(n, result) == SubSeq(sorted_desc(result), 1, Min(n, Len(result)))

\* the loop of get_close_matches: the (score, x) of the possibilities that
\* pass the three cutoff tests, in the order of possibilities
RECURSIVE close_entries(_, _, _)
close_entries(word, possibilities, cutoff) ==
    IF possibilities = <<>> THEN <<>>
    ELSE LET x == Head(possibilities)
             rest == close_entries(word, Tail(possibilities), cutoff)
         IN  IF /\ ratio_ge(real_quick_ratio(x, word), cutoff)
                /\ ratio_ge(quick_ratio(x, word), cutoff)
                /\ ratio_ge(ratio(x, word), cutoff)
             THEN <<[score |-> ratio(x, word), x |-> x]>> \o rest
             ELSE rest

get_close_matches(word, possibilities, n, cutoff) ==
    LET result == nlargest(n, close_entries(word, possibilities, cutoff))
    IN  [i \in 1..Len(result) |-> result[i].x]

----------------------------------------------------------------------------
(* Exceptions: src/exceptions.py and the built-in classes the code raises   *)

\* the base class of each exception class
Bases ==
    [Exception |-> "BaseException",
     SystemExit |-> "BaseException",
     ValueError |-> "Exception",
     TypeError |-> "Exception",
     RuntimeError |-> "Exception",
     ArgentaError |-> "Exception",
     CommandError |-> "ArgentaError",
     CommandNotFoundError |-> "CommandError",
     CommandExecutionError |-> "CommandError",
     FlagError |-> "CommandError",
     FlagValueError |-> "FlagError",
     TooManyTransferredArgsException |-> "CommandError",
     RequiredArgumentNotPassedException |-> "CommandError",
     TriggerCannotContainSpacesException |-> "CommandError"]

RECURSIVE issubclass(_, _)
issubclass(cls, base) ==
    \/ cls = base
    \/ cls \in DOMAIN Bases /\ issubclass(Bases[cls], base)

isinstance(e, cls) == issubclass(e.type, cls)

\* an exception object: its class, the values its message is built from and
\* its __cause__ (set by `raise ... from e`)
Exc(type, msg, cause) == [type |-> type, msg |-> msg, cause |-> cause]

\* sep.join(xs)
RECURSIVE join(_, _)
join(sep, xs) ==
    IF xs = <<>> THEN <<>>
    ELSE IF Len(xs) = 1 THEN xs[1]
    ELSE xs[1] \o sep \o join(sep, Tail(xs))

----------------------------------------------------------------------------
(* Handlers: the functions the application registers                        *)

\* inspect.Parameter.empty
Empty == [py |-> "empty"]

p_name    == <<"n", "a", "m", "e">>
p_x       == <<"x">>
p_y       == <<"y">>
p_command == <<"c", "o", "m", "m", "a", "n", "d">>
p_url     == <<"u", "r", "l">>
p_self    == <<"s", "e", "l", "f">>
p_count   == <<"c", "o", "u", "n", "t">>
p_label   == <<"l", "a", "b", "e", "l">>
p_src     == <<"s", "r", "c">>
p_dst     == <<"d", "s", "t">>
p_path    == <<"p", "a", "t", "h">>

\* an int object
IntObj(n) == [py |-> "int", val |-> n]

\* a reference to the Flag object of identity id
FlagRef(id) == [py |-> "Flag", id |-> id]
v_World   == <<"W", "o", "r", "l", "d">>

\* inspect.signature(func).parameters of the handlers: the built-in
\* exit_app() and help_command(command: str = None) of
\* App._register_builtin_commands, and two handlers of the application,
\* greet(name: str = "World") and move(x: int, y: int); the coroutine
\* function download(url: str) and the async_wrapper AsyncApp.command builds
\* for it (functools.wraps: the signature is the one of the wrapped function);
\* a method-style handler method(self, x: int = 5), a handler without
\* annotations repeat(count=2, label=None), and two handlers whose defaults
\* are Flag objects of the application: copy(src=F1, dst=F1), the same
\* object twice, and show(path=F1, x: int=F2)
signature ==
    [exit_app     |-> <<>>,
     help_command |-> <<[name |-> p_command, annotation |-> "str", default |-> None]>>,
     greet        |-> <<[name |-> p_name, annotation |-> "str", default |-> Str(v_World)]>>,
     move         |-> <<[name |-> p_x, annotation |-> "int", default |-> Empty],
                        [name |-> p_y, annotation |-> "int", default |-> Empty]>>,
     download      |-> <<[name |-> p_url, annotation |-> "str", default |-> Empty]>>,
     async_wrapper |-> <<[name |-> p_url, annotation |-> "str", default |-> Empty]>>,
     method        |-> <<[name |-> p_self, annotation |-> "empty", default |-> Empty],
                         [name |-> p_x, annotation |-> "int", default |-> IntObj(5)]>>,
     repeat        |-> <<[name |-> p_count, annotation |-> "empty", default |-> IntObj(2)],
                         [name |-> p_label, annotation |-> "empty", default |-> None]>>,
     copy          |-> <<[name |-> p_src, annotation |-> "empty", default |-> FlagRef(1)],
                         [name |-> p_dst, annotation |-> "empty", default |-> FlagRef(1)]>>,
     show          |-> <<[name |-> p_path, annotation |-> "empty", default |-> FlagRef(1)],
                         [name |-> p_x, annotation |-> "int", default |-> FlagRef(2)]>>]

\* inspect.iscoroutinefunction: true of an `async def` function, false of
\* the plain function async_wrapper that wraps one
iscoroutinefunction(handler) == handler = "download"

\* what a handler of the application does when called
Behaviours ==
    {"return", "raise Exception", "raise CommandExecutionError",
     "raise CommandNotFoundError"}

----------------------------------------------------------------------------
(* Command (command/base.py): modelled from the specification              *)

\* Flag.__init__
Flag(name, type, default, required) ==
    [py |-> "Flag", name |-> name, type |-> type, default |-> default,
     required |-> required]

\* the Flag object an entry of a schema holds: one of the application's
\* objects, or the object the decorator built for this entry alone
flag_of(entry) ==
    IF "id" \in DOMAIN entry.flag THEN flag_objects[entry.flag.id] ELSE entry.flag

\* a schema with the Flag objects as they are now
schema_now(flags) ==
    [i \in 1..Len(flags) |-> [key |-> flags[i].key, flag |-> flag_of(flags[i])]]

\* Command.__init__ without the check of the names
Command_init_unchecked(id, name, handler, aliases, flags) ==
    [ok |-> TRUE,
     exc |-> None,
     command |-> [py |-> "Command", id |-> id, name |-> name,
                  handler |-> handler, aliases |-> aliases, flags |-> flags]]

\* Command.__init__: the name and the aliases must not contain whitespace
\* (specification 3 and 4.3: InvalidNameError)
Command_init(id, name, handler, aliases, flags) ==
    IF has_whitespace(name) \/ \E i \in 1..Len(aliases) : has_whitespace(aliases[i])
    THEN [ok |-> FALSE,
          exc |-> Exc("TriggerCannotContainSpacesException", name, None),
          command |-> None]
    ELSE [ok |-> TRUE,
          exc |-> None,
          command |-> [py |-> "Command", id |-> id, name |-> name,
                       handler |-> handler, aliases |-> aliases, flags |-> flags]]


\* the decimal digits
digit ==
    ("0" :> 0) @@ ("1" :> 1) @@ ("2" :> 2) @@ ("3" :> 3) @@ ("4" :> 4) @@
    ("5" :> 5) @@ ("6" :> 6) @@ ("7" :> 7) @@ ("8" :> 8) @@ ("9" :> 9)

RECURSIVE int_of(_)
int_of(s) == IF s = <<>> THEN 0 ELSE 10 * int_of(SubSeq(s, 1, Len(s) - 1)) + digit[s[Len(s)]]

\* a bound value: its type tag and the value
Value(kind, val) == [kind |-> kind, val |-> val]

\* coercion of a token to a flag's type (specification 4.4 step 3)
coerce(type, raw) ==
    IF type = "int"
    THEN IF raw # <<>> /\ \A i \in 1..Len(raw) : raw[i] \in DOMAIN digit
         THEN [ok |-> TRUE, value |-> Value("int", int_of(raw))]
         ELSE [ok |-> FALSE, value |-> None]
    ELSE [ok |-> TRUE, value |-> Value("str", raw)]

\* a flag token carries the leading marker -- (specification 4.4 step 1)
is_flag_token(tok) == Len(tok) >= 2 /\ tok[1] = "-" /\ tok[2] = "-"

\* the position of the first = of a flag token, or Len + 1
eq_pos(tok) ==
    LET at == {i \in 1..Len(tok) : tok[i] = "="}
    IN  IF at = {} THEN Len(tok) + 1 ELSE CHOOSE i \in at : \A j \in at : i <= j

flag_name(tok) == SubSeq(tok, 3, eq_pos(tok) - 1)
flag_value(tok) == SubSeq(tok, eq_pos(tok) + 1, Len(tok))

\* the tokens at the positions `keep`, in order
RECURSIVE pick(_, _, _)
pick(s, keep, i) ==
    IF i > Len(s) THEN <<>>
    ELSE (IF i \in keep THEN <<s[i]>> ELSE <<>>) \o pick(s, keep, i + 1)

\* step 1: the flag tokens and the positional tokens, each in order
flag_tokens(tokens) ==
    pick(tokens, {i \in 1..Len(tokens) : is_flag_token(tokens[i])}, 1)

positional_tokens(tokens) ==
    pick(tokens, {i \in 1..Len(tokens) : ~is_flag_token(tokens[i])}, 1)

is_named(ftoks, k) == \E i \in 1..Len(ftoks) : flag_name(ftoks[i]) = k

\* the value of the last flag token that names k
RECURSIVE explicit_value(_, _)
explicit_value(ftoks, k) ==
    IF flag_name(ftoks[Len(ftoks)]) = k THEN flag_value(ftoks[Len(ftoks)])
    ELSE explicit_value(SubSeq(ftoks, 1, Len(ftoks) - 1), k)

\* a parameter with the token it received, if any
Bound(entry, supplied, raw) ==
    [key |-> entry.key, flag |-> entry.flag, supplied |-> supplied, raw |-> raw]

\* bind_params in which a parameter named by a flag token uses up a
\* positional token as well
RECURSIVE bind_params_no_skip(_, _, _)
bind_params_no_skip(flags, positional, ftoks) ==
    IF flags = <<>> THEN <<>>
    ELSE IF is_named(ftoks, Head(flags).key)
    THEN <<Bound(Head(flags), TRUE, explicit_value(ftoks, Head(flags).key))>>
         \o bind_params_no_skip(Tail(flags),
                                IF positional = <<>> THEN <<>> ELSE Tail(positional),
                                ftoks)
    ELSE IF positional # <<>>
    THEN <<Bound(Head(flags), TRUE, Head(positional))>>
         \o bind_params_no_skip(Tail(flags), Tail(positional), ftoks)
    ELSE <<Bound(Head(flags), FALSE, <<>>)>>
         \o bind_params_no_skip(Tail(flags), positional, ftoks)

\* step 2: every parameter named by a flag token takes that token's value;
\* the positional tokens go to the other parameters in declaration order
RECURSIVE bind_params(_, _, _)
bind_params(flags, positional, ftoks) ==
    IF flags = <<>> THEN <<>>
    ELSE IF is_named(ftoks, Head(flags).key)
    THEN <<Bound(Head(flags), TRUE, explicit_value(ftoks, Head(flags).key))>>
         \o bind_params(Tail(flags), positional, ftoks)
    ELSE IF positional # <<>>
    THEN <<Bound(Head(flags), TRUE, Head(positional))>>
         \o bind_params(Tail(flags), Tail(positional), ftoks)
    ELSE <<Bound(Head(flags), FALSE, <<>>)>>
         \o bind_params(Tail(flags), positional, ftoks)

bound_value(b) ==
    IF b.supplied THEN coerce(b.flag.type, b.raw).value
    ELSE Value("default", b.flag.default)

\* the parameters bound to a token that its type does not accept
bad_values(bound) ==
    {bound[i].key : i \in {j \in 1..Len(bound) :
        bound[j].supplied /\ ~coerce(bound[j].flag.type, bound[j].raw).ok}}

\* the required parameters that received no token
missing_values(bound) ==
    {bound[i].key : i \in {j \in 1..Len(bound) :
        ~bound[j].supplied /\ bound[j].flag.required}}

\* the error of a failed binding
bind_error(type, msg) ==
    [ok |-> FALSE, exc |-> Exc(type, msg, None), args |-> <<>>, kwargs |-> <<>>]

\* the bound arguments: every parameter with its coerced or default value
bound_kwargs(bound) ==
    [ok |-> TRUE, exc |-> None, args |-> <<>>,
     kwargs |-> [k \in {bound[i].key : i \in 1..Len(bound)} |->
                   bound_value(bound[CHOOSE i \in 1..Len(bound) : bound[i].key = k])]]

\* check_errors that names the first missing parameter only
check_errors_first_missing(bound, bad, missing, surplus) ==
    IF missing # {}
    THEN bind_error("RequiredArgumentNotPassedException",
                    {bound[CHOOSE i \in 1..Len(bound) :
                               /\ bound[i].key \in missing
                               /\ \A j \in 1..(i - 1) : bound[j].key \notin missing].key})
    ELSE IF surplus > 0
    THEN bind_error("TooManyTransferredArgsException", surplus)
    ELSE IF bad # {}
    THEN bind_error("FlagValueError", bad)
    ELSE bound_kwargs(bound)

\* check_errors that drops the surplus positional tokens
check_errors_surplus_dropped(bound, bad, missing, surplus) ==
    IF missing # {}
    THEN bind_error("RequiredArgumentNotPassedException", missing)
    ELSE IF bad # {}
    THEN bind_error("FlagValueError", bad)
    ELSE bound_kwargs(bound)

\* steps 3 to 5: a required parameter without a value always fails with
\* RequiredArgumentNotPassedError naming all of them (specification 4.4 step
\* 4 and section 8), surplus positional tokens with TooManyArgumentsError
\* (step 5), a value that cannot be coerced, or a flag token that names no
\* parameter, with FlagValueError (step 3)
check_errors(bound, bad, missing, surplus) ==
    IF missing # {}
    THEN bind_error("RequiredArgumentNotPassedException", missing)
    ELSE IF surplus > 0
    THEN bind_error("TooManyTransferredArgsException", surplus)
    ELSE IF bad # {}
    THEN bind_error("FlagValueError", bad)
    ELSE bound_kwargs(bound)

\* `unknown` are the names of flag tokens that name no parameter, `surplus`
\* the positional tokens left over
check_bound(bound, unknown, surplus) ==
    check_errors(bound, bad_values(bound) \cup unknown, missing_values(bound), surplus)

bind_tokens(flags, positional, ftoks) ==
    check_bound(bind_params(flags, positional, ftoks),
                {flag_name(ftoks[i]) : i \in 1..Len(ftoks)}
                    \ {flags[i].key : i \in 1..Len(flags)},
                Len(positional)
                    - Cardinality({i \in 1..Len(flags) : ~is_named(ftoks, flags[i].key)}))

\* Command.parse_args(tokens): binding of the tokens after the name against
\* the schema (specification 4.4 steps 1 to 5).  kwargs maps every parameter
\* to its explicit, positional or default value.
parse_args(command, tokens) ==
    bind_tokens(schema_now(command.flags), positional_tokens(tokens), flag_tokens(tokens))

\* Command.execute(*args, **kwargs): the call of the handler.  exit_app
\* calls sys.exit(0); help_command looks its argument up in the table; a
\* handler of the application returns or raises as `behaviour` says.
Command_execute(command, args, kwargs, behaviour) ==
    LET ret(v) == [raised |-> FALSE, value |-> v, exc |-> None]
        raise(e) == [raised |-> TRUE, value |-> None, exc |-> e]
    IN  CASE command.handler = "exit_app" -> raise(Exc("SystemExit", 0, None))
          [] command.handler = "help_command" ->
                LET arg == kwargs[p_command] IN
                IF arg.kind = "default"
                THEN ret([py |-> "str", val |-> "help"])
                ELSE IF arg.val = <<>>
                THEN ret([py |-> "str", val |-> "help"])
                ELSE LET cmd == get_command(arg.val) IN
                     IF cmd # None
                     THEN ret([py |-> "str", val |-> "command help", name |-> cmd.name])
                     ELSE ret([py |-> "str", val |-> "not found", name |-> arg.val])
          [] behaviour = "return" ->
                ret([py |-> "result", handler |-> command.handler, kwargs |-> kwargs])
          [] behaviour = "raise Exception" ->
                raise(Exc("Exception", command.handler, None))
          [] behaviour = "raise CommandExecutionError" ->
                raise(Exc("CommandExecutionError", command.handler, None))
          [] OTHER -> raise(Exc("CommandNotFoundError", command.handler, None))

----------------------------------------------------------------------------
(* App: registration                                                        *)

\* synthesize in which a parameter is required when its default is None
RECURSIVE synthesize_required_if_none(_)
synthesize_required_if_none(params) ==
    IF params = <<>> THEN <<>>
    ELSE IF Head(params).default # Empty /\ Head(params).default.py = "Flag"
    THEN <<[key |-> Head(params).name, flag |-> Head(params).default]>>
         \o synthesize_required_if_none(Tail(params))
    ELSE IF Head(params).name # p_self
    THEN <<[key |-> Head(params).name,
            flag |-> Flag(Head(params).name,
                          IF Head(params).annotation # "empty"
                          THEN Head(params).annotation
                          ELSE IF Head(params).default \notin {Empty, None}
                          THEN Head(params).default.py
                          ELSE "str",
                          IF Head(params).default = Empty THEN None
                          ELSE Head(params).default,
                          Head(params).default \in {Empty, None})]>>
         \o synthesize_required_if_none(Tail(params))
    ELSE synthesize_required_if_none(Tail(params))

\* the schema App.command.decorator derives from the handler's signature:
\* one entry per parameter, in declaration order
RECURSIVE synthesize(_)
synthesize(params) ==
    IF params = <<>> THEN <<>>
    ELSE LET param == Head(params)
             rest == synthesize(Tail(params))
         IN  IF param.default # Empty /\ param.default.py = "Flag"
             THEN \* flags[param_name] = flag: the object itself
                  <<[key |-> param.name, flag |-> param.default]>> \o rest
             ELSE IF param.name # p_self
             THEN LET default == IF param.default = Empty THEN None ELSE param.default
                      param_type == IF param.annotation # "empty" THEN param.annotation
                                    ELSE IF default # None THEN default.py
                                    ELSE "str"
                      required == param.default = Empty
                  IN  <<[key |-> param.name,
                         flag |-> Flag(param.name, param_type, default, required)]>>
                      \o rest
             ELSE rest

\* flag.name = param_name, for every parameter whose default is a Flag
\* object, in declaration order: the Flag objects after the loop
RECURSIVE rename_flags(_, _)
rename_flags(params, objects) ==
    IF params = <<>> THEN objects
    ELSE IF Head(params).default # Empty /\ Head(params).default.py = "Flag"
    THEN rename_flags(Tail(params),
                      [objects EXCEPT ![Head(params).default.id].name = Head(params).name])
    ELSE rename_flags(Tail(params), objects)

\* App.command(name, description, aliases)(func): the Command is built from
\* the synthesized schema and handed to Router.add_command; an exception of
\* the constructor leaves the table as it was
command_decorator(cmds, al, id, name, aliases, func) ==
    LET flags == synthesize(signature[func])
        built == Command_init(id, name, func, aliases, flags)
    IN  IF built.ok
        THEN LET table == add_command(cmds, al, built.command)
             IN  [ok |-> TRUE, exc |-> None, command |-> built.command,
                  commands |-> table.commands, aliases |-> table.aliases]
        ELSE [ok |-> FALSE, exc |-> built.exc, command |-> None,
              commands |-> cmds, aliases |-> al]

----------------------------------------------------------------------------
(* Router: suggestions and the parse of a command line                      *)

\* n of the get_close_matches call
MaxResults == 3

\* the default of threshold, in hundredths
DefaultThreshold == 60

\* find_similar_commands that looks at the aliases only
find_similar_commands_aliases_only(name, threshold) ==
    get_close_matches(fold(name), dict_keys(_aliases), MaxResults, threshold)

\* Router.find_similar_commands(name, threshold)
find_similar_commands(name, threshold) ==
    LET all_names == dict_keys(_commands) \o dict_keys(_aliases)
    IN  get_close_matches(fold(name), all_names, MaxResults, threshold)

\* what parse_command_line hands to App.execute: the command with its
\* arguments or the exception raised, and the steps made, in program order,
\* with how each ended
Parsed(ok, e, command, args, kwargs, events) ==
    [ok |-> ok, exc |-> e, command |-> command, args |-> args, kwargs |-> kwargs,
     events |-> events]

\* the end of parse_command_line with the binding error ignored
bound_result_unchecked(command, bound) ==
    Parsed(TRUE, None, command, bound.args, bound.kwargs,
           <<"tokenize:ok", "resolve:ok", IF bound.ok THEN "bind:ok" ELSE "bind:error">>)

\* args, kwargs = command.parse_args(tokens[1:]); return command, args, kwargs
bound_result(command, bound) ==
    IF ~bound.ok
    THEN Parsed(FALSE, bound.exc, None, <<>>, <<>>,
                <<"tokenize:ok", "resolve:ok", "bind:error">>)
    ELSE Parsed(TRUE, None, command, bound.args, bound.kwargs,
                <<"tokenize:ok", "resolve:ok", "bind:ok">>)

\* command = self.get_command(cmd_name) and what follows
resolved(tokens, command) ==
    IF command = None
    THEN Parsed(FALSE,
                Exc("CommandNotFoundError", [name |-> tokens[1], hint |-> <<>>], None),
                None, <<>>, <<>>, <<"tokenize:ok", "resolve:notfound">>)
    ELSE bound_result(command, parse_args(command, Tail(tokens)))

\* tokens = shlex.split(command_line) and what follows
tokenized(split) ==
    IF ~split.ok
    THEN Parsed(FALSE,
                Exc("ValueError", <<"command line parse error", split.error>>, None),
                None, <<>>, <<>>, <<"tokenize:error">>)
    ELSE IF split.tokens = <<>>
    THEN Parsed(FALSE, Exc("ValueError", <<"empty command line">>, None),
                None, <<>>, <<>>, <<"tokenize:ok", "empty">>)
    ELSE resolved(split.tokens, get_command(split.tokens[1]))

\* Router.parse_command_line(command_line)
parse_command_line(command_line) == tokenized(shlex_split(command_line))

----------------------------------------------------------------------------
(* App.execute(command_line)                                                *)

\* what App.execute hands to its caller
Outcome(raised, value, e, events) ==
    [raised |-> raised, value |-> value, exc |-> e, events |-> events]

\* return command.execute(*args, **kwargs)
handler_called(events, ran) ==
    Outcome(ran.raised, ran.value, ran.exc,
            Append(events, IF ran.raised THEN "handler:raise" ELSE "handler:return"))

\* the try block: the parse, then the call of the handler
try_block(parsed, behaviour) ==
    IF ~parsed.ok
    THEN Outcome(TRUE, None, parsed.exc, parsed.events)
    ELSE handler_called(parsed.events,
                        Command_execute(parsed.command, parsed.args, parsed.kwargs,
                                        behaviour))

\* raise CommandNotFoundError(...) with the similar commands, if any
not_found_error(cmd_name, similar_commands, events) ==
    Outcome(TRUE, None,
            Exc("CommandNotFoundError",
                [name |-> cmd_name, hint |-> join(<<",", " ">>, similar_commands)],
                None),
            Append(events, "suggest"))

\* except CommandNotFoundError: the line is tokenized again
except_not_found(split, events) ==
    IF ~split.ok
    THEN Outcome(TRUE, None, Exc("ValueError", <<split.error>>, None), events)
    ELSE IF split.tokens = <<>>
    THEN Outcome(FALSE, None, None, events)
    ELSE not_found_error(split.tokens[1],
                         find_similar_commands(split.tokens[1], DefaultThreshold),
                         events)

\* the except clauses of App.execute on the outcome of the try block
except_clauses(command_line, tried) ==
    IF ~tried.raised
    THEN tried
    ELSE IF isinstance(tried.exc, "CommandNotFoundError")
    THEN except_not_found(shlex_split(command_line), tried.events)
    ELSE IF isinstance(tried.exc, "Exception")
              /\ ~isinstance(tried.exc, "CommandExecutionError")
    THEN \* raise CommandExecutionError(...) from e
         Outcome(TRUE, None, Exc("CommandExecutionError", tried.exc.msg, tried.exc),
                 tried.events)
    ELSE tried

execute(command_line, behaviour) ==
    except_clauses(command_line, try_block(parse_command_line(command_line), behaviour))

----------------------------------------------------------------------------
(* AsyncApp (async_support): registration and dispatch                      *)

\* super() without arguments, evaluated in a function nested in a method of
\* cls: Python takes the first argument of that innermost function as the
\* object; it must be an instance of cls
zero_arg_super(cls, first_arg) ==
    IF first_arg.py = cls
    THEN [ok |-> TRUE, exc |-> None]
    ELSE [ok |-> FALSE,
          exc |-> Exc("TypeError",
                      <<"super(type, obj): obj must be an instance or subtype of type">>,
                      None)]

\* return super().command(cmd_name, cmd_description, aliases)(handler), in
\* decorator(func): the object super() gets is func
super_command(sup, cmds, al, id, name, aliases, handler) ==
    IF ~sup.ok
    THEN [ok |-> FALSE, exc |-> sup.exc, command |-> None,
          commands |-> cmds, aliases |-> al]
    ELSE command_decorator(cmds, al, id, name, aliases, handler)

\* AsyncApp.command(name, description, aliases)(func): a coroutine function
\* is registered as its async_wrapper, any other function as itself
AsyncApp_command(cmds, al, id, name, aliases, func) ==
    super_command(zero_arg_super("AsyncApp", [py |-> "function", name |-> func]),
                  cmds, al, id, name, aliases,
                  IF iscoroutinefunction(func) THEN "async_wrapper" ELSE func)

\* the second built-in registration of the constructor
AsyncApp_init_help(exit) ==
    IF ~exit.ok
    THEN exit
    ELSE AsyncApp_command(exit.commands, exit.aliases, 2, s_help, <<>>, "help_command")

\* AsyncApp(...): App.__init__ registers the built-in commands through
\* self.command, which is AsyncApp.command; an exception leaves no object
AsyncApp_init ==
    AsyncApp_init_help(AsyncApp_command(<<>>, <<>>, 1, s_exit, <<>>, "exit_app"))

\* command.execute(*args, **kwargs) called while an event loop is running:
\* async_wrapper gets the running loop from asyncio.get_event_loop() and
\* calls loop.run_until_complete on it
Command_execute_in_loop(command, args, kwargs, behaviour) ==
    IF command.handler = "async_wrapper"
    THEN [raised |-> TRUE, value |-> None,
          exc |-> Exc("RuntimeError", <<"This event loop is already running">>, None)]
    ELSE Command_execute(command, args, kwargs, behaviour)

\* the try block of AsyncApp.execute
async_try_block(parsed, behaviour) ==
    IF ~parsed.ok
    THEN Outcome(TRUE, None, parsed.exc, parsed.events)
    ELSE IF iscoroutinefunction(parsed.command.handler)
    THEN \* return await handler(*args, **kwargs)
         handler_called(parsed.events,
                        Command_execute(parsed.command, parsed.args, parsed.kwargs,
                                        behaviour))
    ELSE \* return command.execute(*args, **kwargs)
         handler_called(parsed.events,
                        Command_execute_in_loop(parsed.command, parsed.args,
                                                parsed.kwargs, behaviour))

\* except Exception as e: every exception but CommandExecutionError is wrapped
async_except_clause(tried) ==
    IF tried.raised /\ isinstance(tried.exc, "Exception")
           /\ ~isinstance(tried.exc, "CommandExecutionError")
    THEN Outcome(TRUE, None, Exc("CommandExecutionError", tried.exc.msg, tried.exc),
                 tried.events)
    ELSE tried

\* AsyncApp.execute(command_line), awaited
AsyncApp_execute(command_line, behaviour) ==
    async_except_clause(async_try_block(parse_command_line(command_line), behaviour))

----------------------------------------------------------------------------
(* HistoryPlugin (src/base.py)                                              *)

\* HistoryPlugin(max_history): self.history is a new empty list
HistoryPlugin_init(max_history) ==
    [py |-> "HistoryPlugin", max_history |-> max_history, history |-> <<>>]

\* the condition under which add_to_history appends the line
accepted(plugin, command_line) ==
    /\ ~is_blank(command_line)
    /\ \/ plugin.history = <<>>
       \/ plugin.history[Len(plugin.history)] # command_line

\* if len(self.history) > self.max_history: self.history.pop(0)
trimmed(history, max_history) ==
    IF Len(history) > max_history THEN Tail(history) ELSE history

\* add_to_history that drops the newest entry when the history is full
add_to_history_drop_newest(plugin, command_line) ==
    IF accepted(plugin, command_line)
    THEN [plugin EXCEPT !.history =
             IF Len(plugin.history) + 1 > plugin.max_history
             THEN plugin.history
             ELSE Append(plugin.history, command_line)]
    ELSE plugin

\* HistoryPlugin.add_to_history(command_line)
add_to_history(plugin, command_line) ==
    IF accepted(plugin, command_line)
    THEN [plugin EXCEPT !.history =
             trimmed(Append(plugin.history, command_line), plugin.max_history)]
    ELSE plugin

\* HistoryPlugin.clear_history(): the list is emptied in place
clear_history(plugin) == [plugin EXCEPT !.history = <<>>]

\* a list object in the hands of the caller: `shared` says whether it is the
\* very list self.history (then its items are those of the history)
ListObj(shared, items) == [py |-> "list", shared |-> shared, items |-> items]

\* get_history that returns self.history itself
get_history_same_list(plugin) == ListObj(TRUE, <<>>)

\* HistoryPlugin.get_history(): return self.history.copy()
get_history(plugin) == ListObj(FALSE, plugin.history)

\* the items of a list object
items_of(list, plugin) == IF list.shared THEN plugin.history ELSE list.items

\* what one call of a wrapper leaves: the plugin and what the caller gets
Wrapped(plugin, outcome) == [plugin |-> plugin, outcome |-> outcome]

\* execute_with_history that calls original_execute again when it raised
execute_with_history_retrying(plugin, command_line, original) ==
    Wrapped(add_to_history(plugin, command_line),
            [original EXCEPT !.events =
                <<"history:add">> \o original.events
                    \o (IF original.raised THEN original.events ELSE <<>>)])

\* execute_with_history that records the line once original_execute returned
execute_with_history_recording_after(plugin, command_line, original) ==
    Wrapped(IF original.raised THEN plugin ELSE add_to_history(plugin, command_line),
            [original EXCEPT !.events = original.events \o <<"history:add">>])

\* execute_with_history(command_line), the function HistoryPlugin.initialize
\* puts in the place of app.execute: self.add_to_history(command_line), then
\* return original_execute(command_line), whose outcome is `original`
execute_with_history(plugin, command_line, original) ==
    Wrapped(add_to_history(plugin, command_line),
            [original EXCEPT !.events = <<"history:add">> \o original.events])

\* the k-th wrapper called around the outcome of the wrappers inside it
wrapper_called(k, command_line, inner) ==
    [plugins |-> [inner.plugins EXCEPT
                     ![k] = execute_with_history(inner.plugins[k], command_line,
                                                 inner.outcome).plugin],
     outcome |-> execute_with_history(inner.plugins[k], command_line,
                                      inner.outcome).outcome]

\* app.execute after k plugins replaced it in turn: the k-th wrapper calls
\* the one before it, the first calls App.execute
RECURSIVE app_execute(_, _, _, _)
app_execute(installed, k, command_line, behaviour) ==
    IF k = 0
    THEN [plugins |-> installed, outcome |-> execute(command_line, behaviour)]
    ELSE wrapper_called(k, command_line,
                        app_execute(installed, k - 1, command_line, behaviour))

----------------------------------------------------------------------------
(* The application as a state machine                                       *)

\* no add_command call is in progress
Idle == [at |-> "idle"]

\* the registrations the application may make: case variants of one name,
\* an alias that is another command's name, several aliases, a name with
\* whitespace and an alias with whitespace
Registrations ==
    {[name |-> s_fetch, aliases |-> <<>>,              func |-> "greet"],
     [name |-> s_Fetch, aliases |-> <<>>,              func |-> "move"],
     [name |-> s_go,    aliases |-> <<s_fetch>>,       func |-> "move"],
     [name |-> s_go,    aliases |-> <<s_FETCH, s_g>>,  func |-> "greet"],
     [name |-> s_go,    aliases |-> <<>>,              func |-> "greet"],
     [name |-> s_fetch, aliases |-> <<s_go>>,          func |-> "move"],
     [name |-> s_a_b,   aliases |-> <<>>,              func |-> "greet"],
     [name |-> s_go,    aliases |-> <<s_g, s_a_b>>,    func |-> "move"]}

\* the command lines the model dispatches
l_FETCH_3_4  == s_FETCH \o <<" ", "3", " ", "4">>
l_fetch_flag == s_fetch \o <<" ", "-", "-", "y", "=", "4", " ", "3">>
l_fetch_x_3  == s_fetch \o <<" ", "-", "-", "x", "=", "4", " ", "3">>
l_fetch_x_a  == s_fetch \o <<" ", "-", "-", "x", "=", "a">>
l_fetch_a_b_c == s_fetch \o <<" ", "a", " ", "b", " ", "c">>
l_go_a_b     == s_go \o <<" ", "a", " ", "b">>
l_help_go    == s_help \o <<" ", "g", "o">>
l_unbalanced == <<"'">> \o s_fetch
l_escape     == s_go \o <<"\\">>
l_empty      == <<>>
l_blank      == <<" ", "\t">>

Lines ==
    {s_fetch, l_FETCH_3_4, l_fetch_flag, s_fettch, s_zz, l_go_a_b, s_exit, l_help_go,
     l_unbalanced, l_escape, l_empty, l_blank, l_fetch_x_3, l_fetch_x_a, l_fetch_a_b_c}

\* the Flag objects the application builds before it registers commands:
\* F1 = Flag("count", int, default=1), F2 = Flag("depth", int, required=True)
PrebuiltFlags ==
    <<Flag(p_count, "int", IntObj(1), FALSE),
      Flag(<<"d", "e", "p", "t", "h">>, "int", None, TRUE)>>

\* the two registrations of App._register_builtin_commands
builtin_exit == command_decorator(<<>>, <<>>, 1, s_exit, <<>>, "exit_app")
builtin_help ==
    command_decorator(builtin_exit.commands, builtin_exit.aliases, 2, s_help, <<>>,
                      "help_command")

\* App.__init__: the router is created and the built-in commands registered
Init ==
    /\ case_sensitive \in BOOLEAN
    /\ _commands = builtin_help.commands
    /\ _aliases = builtin_help.aliases
    /\ registered = <<builtin_exit.command, builtin_help.command>>
    /\ flag_objects = PrebuiltFlags
    /\ plugins = <<>>
    /\ recorded = <<>>
    /\ held = <<>>
    /\ adding = Idle
    /\ last = [op |-> "init"]

\* @app.command(name, aliases=aliases) applied to func
Register(name, aliases, func) ==
    /\ Len(registered) < 2 + MaxRegs
    /\ LET r == command_decorator(_commands, _aliases, Len(registered) + 1,
                                  name, aliases, func)
       IN  /\ _commands' = r.commands
           /\ _aliases' = r.aliases
           /\ registered' = IF r.ok THEN Append(registered, r.command) ELSE registered
           /\ last' = [op |-> "command", ok |-> r.ok, exc |-> r.exc,
                       command |-> r.command, name |-> name, aliases |-> aliases]
    /\ flag_objects' = rename_flags(signature[func], flag_objects)
    /\ UNCHANGED case_sensitive
    /\ UNCHANGED others

\* app.execute(command_line); the handler, if called, behaves as `behaviour`
Execute(command_line, behaviour) ==
    /\ last' = [op |-> "execute", line |-> command_line,
                outcome |-> execute(command_line, behaviour)]
    /\ UNCHANGED <<case_sensitive, _commands, _aliases, registered, flag_objects>>
    /\ UNCHANGED others

\* app.router.parse_command_line(command_line)
Parse(command_line) ==
    /\ last' = [op |-> "parse", line |-> command_line,
                parsed |-> parse_command_line(command_line)]
    /\ UNCHANGED <<case_sensitive, _commands, _aliases, registered, flag_objects>>
    /\ UNCHANGED others

\* AsyncApp(...): the construction of the asynchronous application
AsyncConstruct ==
    /\ last' = [op |-> "async_init", ok |-> AsyncApp_init.ok, exc |-> AsyncApp_init.exc]
    /\ UNCHANGED <<case_sensitive, _commands, _aliases, registered, flag_objects>>
    /\ UNCHANGED others

Next ==
    \/ \E r \in Registrations : Register(r.name, r.aliases, r.func)
    \/ \E command_line \in Lines : Parse(command_line)
    \/ AsyncConstruct
    \/ \E command_line \in Lines, behaviour \in Behaviours :
           Execute(command_line, behaviour)

Spec == Init /\ [][Next]_vars

----------------------------------------------------------------------------
(* The application registering handlers of every kind of signature          *)

\* registrations of the handlers with a receiver, without annotations and
\* with Flag objects as defaults
SchemaRegistrations ==
    {[name |-> s_fetch, aliases |-> <<>>,     func |-> "method"],
     [name |-> s_go,    aliases |-> <<>>,     func |-> "repeat"],
     [name |-> s_go,    aliases |-> <<s_g>>,  func |-> "copy"],
     [name |-> s_fetch, aliases |-> <<>>,     func |-> "show"],
     [name |-> s_zz,    aliases |-> <<>>,     func |-> "move"],
     [name |-> s_a_b,   aliases |-> <<>>,     func |-> "show"]}

l_go_7     == s_go \o <<" ", "7">>
l_fetch_dst == s_fetch \o <<" ", "-", "-", "x", "=", "4">>

SchemaLines == {l_go_7, l_fetch_dst, s_fetch, s_zz}

NextSchema ==
    \/ \E r \in SchemaRegistrations : Register(r.name, r.aliases, r.func)
    \/ \E command_line \in SchemaLines : Parse(command_line)

SpecSchema == Init /\ [][NextSchema]_vars

----------------------------------------------------------------------------
(* A Router used on its own: add_command and find_similar_commands          *)

\* the commands handed to Router.add_command: the three names of the
\* suggestion example, the same keys as one name with two aliases, a fourth
\* and fifth key close to them, and a name with an upper-case letter
RouterCommands ==
    {[name |-> s_status, aliases |-> <<>>],
     [name |-> s_stats,  aliases |-> <<>>],
     [name |-> s_start,  aliases |-> <<>>],
     [name |-> s_status, aliases |-> <<s_start, s_stats>>],
     [name |-> s_state,  aliases |-> <<s_stat>>],
     [name |-> s_Fetch,  aliases |-> <<>>]}

\* the names looked for and the thresholds, in hundredths
SimilarQueries == {s_stat, s_etch, s_FETCH, s_zz}
Thresholds == {DefaultThreshold, 85}

\* Router(case_sensitive)
InitRouter ==
    /\ case_sensitive \in BOOLEAN
    /\ _commands = <<>>
    /\ _aliases = <<>>
    /\ registered = <<>>
    /\ flag_objects = PrebuiltFlags
    /\ plugins = <<>>
    /\ recorded = <<>>
    /\ held = <<>>
    /\ adding = Idle
    /\ last = [op |-> "init"]

\* router.add_command(Command(name, aliases=aliases))
AddCommand(name, aliases) ==
    /\ Len(registered) < MaxAdds
    /\ LET built == Command_init(Len(registered) + 1, name, "greet", aliases,
                                 synthesize(signature["greet"]))
       IN  /\ _commands' = add_command(_commands, _aliases, built.command).commands
           /\ _aliases' = add_command(_commands, _aliases, built.command).aliases
           /\ registered' = Append(registered, built.command)
           /\ last' = [op |-> "add_command", command |-> built.command]
    /\ UNCHANGED <<case_sensitive, flag_objects>>
    /\ UNCHANGED others

\* router.find_similar_commands(name, threshold)
FindSimilar(name, threshold) ==
    /\ last' = [op |-> "find_similar_commands", name |-> name, threshold |-> threshold,
                similar |-> find_similar_commands(name, threshold)]
    /\ UNCHANGED <<case_sensitive, _commands, _aliases, registered, flag_objects>>
    /\ UNCHANGED others

NextRouter ==
    \/ \E c \in RouterCommands : AddCommand(c.name, c.aliases)
    \/ \E name \in SimilarQueries, threshold \in Thresholds : FindSimilar(name, threshold)

SpecRouter == InitRouter /\ [][NextRouter]_vars

----------------------------------------------------------------------------
(* A HistoryPlugin used on its own                                          *)

HistoryLines == {s_go, s_zz, l_blank, l_empty}

\* plugin = HistoryPlugin(max_history)
InitHistory ==
    /\ case_sensitive = FALSE
    /\ _commands = <<>>
    /\ _aliases = <<>>
    /\ registered = <<>>
    /\ flag_objects = PrebuiltFlags
    /\ plugins \in {<<HistoryPlugin_init(max_history)>> : max_history \in 0..MaxHistory}
    /\ recorded = <<>>
    /\ held = <<>>
    /\ adding = Idle
    /\ last = [op |-> "init"]

\* plugin.add_to_history(command_line)
AddToHistory(command_line) ==
    /\ Len(recorded) < MaxRecorded
    /\ plugins' = [plugins EXCEPT ![1] = add_to_history(plugins[1], command_line)]
    /\ recorded' = IF accepted(plugins[1], command_line)
                   THEN Append(recorded, command_line) ELSE recorded
    /\ last' = [op |-> "add_to_history", line |-> command_line]
    /\ UNCHANGED <<case_sensitive, _commands, _aliases, registered, flag_objects>>
    /\ UNCHANGED <<held, adding>>

\* plugin.clear_history()
ClearHistory ==
    /\ plugins' = [plugins EXCEPT ![1] = clear_history(plugins[1])]
    /\ recorded' = <<>>
    /\ last' = [op |-> "clear_history"]
    /\ UNCHANGED <<case_sensitive, _commands, _aliases, registered, flag_objects>>
    /\ UNCHANGED <<held, adding>>

\* returned = plugin.get_history()
GetHistory ==
    /\ Len(held) < MaxHeld
    /\ held' = Append(held, get_history(plugins[1]))
    /\ last' = [op |-> "get_history", returned |-> plugins[1].history]
    /\ UNCHANGED <<case_sensitive, _commands, _aliases, registered, flag_objects>>
    /\ UNCHANGED <<plugins, recorded, adding>>

\* returned[:] = [""]: the caller replaces the items of a list it was given
MutateReturned(k) ==
    /\ IF held[k].shared
       THEN /\ plugins' = [plugins EXCEPT ![1].history = <<l_empty>>]
            /\ UNCHANGED held
       ELSE /\ held' = [held EXCEPT ![k].items = <<l_empty>>]
            /\ UNCHANGED plugins
    /\ last' = [op |-> "mutate", list |-> k, before |-> items_of(held[k], plugins[1])]
    /\ UNCHANGED <<case_sensitive, _commands, _aliases, registered, flag_objects>>
    /\ UNCHANGED <<recorded, adding>>

NextHistory ==
    \/ \E command_line \in HistoryLines : AddToHistory(command_line)
    \/ ClearHistory
    \/ GetHistory
    \/ \E k \in 1..Len(held) : MutateReturned(k)

SpecHistory == InitHistory /\ [][NextHistory]_vars

----------------------------------------------------------------------------
(* The application with history plugins                                     *)

PluginRegistrations == {[name |-> s_fetch, aliases |-> <<>>, func |-> "greet"]}

PluginLines == {s_fetch, s_zz, l_blank}

HistorySizes == {0, MaxHistory}

\* HistoryPlugin(max_history).initialize(app), as App.__init__ does for the
\* plugins it is given and as a caller may do later
Install(max_history) ==
    /\ Len(plugins) < MaxPlugins
    /\ plugins' = Append(plugins, HistoryPlugin_init(max_history))
    /\ last' = [op |-> "initialize", max_history |-> max_history]
    /\ UNCHANGED <<case_sensitive, _commands, _aliases, registered, flag_objects>>
    /\ UNCHANGED <<recorded, held, adding>>

\* app.execute(command_line) on the application as the plugins left it
Dispatch(command_line, behaviour) ==
    /\ plugins' = app_execute(plugins, Len(plugins), command_line, behaviour).plugins
    /\ last' = [op |-> "dispatch", line |-> command_line, behaviour |-> behaviour,
                outcome |-> app_execute(plugins, Len(plugins), command_line,
                                        behaviour).outcome]
    /\ UNCHANGED <<case_sensitive, _commands, _aliases, registered, flag_objects>>
    /\ UNCHANGED <<recorded, held, adding>>

NextPlugins ==
    \/ \E r \in PluginRegistrations : Register(r.name, r.aliases, r.func)
    \/ \E max_history \in HistorySizes : Install(max_history)
    \/ \E command_line \in PluginLines, behaviour \in Behaviours :
           Dispatch(command_line, behaviour)

SpecPlugins == Init /\ [][NextPlugins]_vars

----------------------------------------------------------------------------
(* A Router shared by a registering thread and a looking-up thread: the     *)
(* statements of add_command are steps of their own, as nothing in Router   *)
(* excludes another thread between them                                     *)

ThreadCommands ==
    {[name |-> s_go,    aliases |-> <<s_g, s_fetch>>],
     [name |-> s_Fetch, aliases |-> <<>>],
     [name |-> s_go,    aliases |-> <<s_zz>>]}

ThreadQueries == {s_go, s_g, s_fetch, s_zz}

\* add_command up to self._commands[name] = command
AddCommandBegin(name, aliases) ==
    /\ adding = Idle
    /\ Len(registered) < MaxAdds
    /\ LET built == Command_init_unchecked(Len(registered) + 1, name, "greet", aliases,
                                           synthesize(signature["greet"]))
       IN  /\ _commands' = dict_set(_commands, fold(name), built.command)
           /\ registered' = Append(registered, built.command)
           /\ adding' = [at |-> "aliases", name |-> fold(name), rest |-> aliases]
           /\ last' = [op |-> "add_command", step |-> "canonical",
                       command |-> built.command]
    /\ UNCHANGED <<case_sensitive, _aliases, flag_objects, plugins, recorded, held>>

\* one turn of the loop: self._aliases[alias_key] = name
AddCommandAlias ==
    /\ adding # Idle
    /\ adding.rest # <<>>
    /\ _aliases' = dict_set(_aliases, fold(Head(adding.rest)), adding.name)
    /\ adding' = [adding EXCEPT !.rest = Tail(adding.rest)]
    /\ last' = [op |-> "add_command", step |-> "alias", alias |-> Head(adding.rest)]
    /\ UNCHANGED <<case_sensitive, _commands, registered, flag_objects,
                   plugins, recorded, held>>

\* the loop is over: add_command returns
AddCommandReturn ==
    /\ adding # Idle
    /\ adding.rest = <<>>
    /\ adding' = Idle
    /\ last' = [op |-> "add_command", step |-> "return"]
    /\ UNCHANGED <<case_sensitive, _commands, _aliases, registered, flag_objects,
                   plugins, recorded, held>>

\* router.get_command(name) on the other thread
Resolve(name) ==
    /\ last' = [op |-> "get_command", name |-> name, result |-> get_command(name)]
    /\ UNCHANGED <<case_sensitive, _commands, _aliases, registered, flag_objects>>
    /\ UNCHANGED others

\* router.find_similar_commands(name) on the other thread
Suggest(name) ==
    /\ last' = [op |-> "suggest", name |-> name,
                similar |-> find_similar_commands(name, DefaultThreshold)]
    /\ UNCHANGED <<case_sensitive, _commands, _aliases, registered, flag_objects>>
    /\ UNCHANGED others

NextThreads ==
    \/ \E c \in ThreadCommands : AddCommandBegin(c.name, c.aliases)
    \/ AddCommandAlias
    \/ AddCommandReturn
    \/ \E name \in ThreadQueries : Resolve(name)
    \/ \E name \in ThreadQueries : Suggest(name)

SpecThreads == InitRouter /\ [][NextThreads]_vars

----------------------------------------------------------------------------
(* Properties                                                               *)

\* the names looked up in the properties
Queries ==
    {s_fetch, s_Fetch, s_FETCH, s_FeTcH, s_fettch, s_go, s_g, s_zz, s_exit, s_help,
     s_a_b}

\* registration i bound the string s, as its name or as one of its aliases
\* (under the table's case rule)
binds(i, s) ==
    \/ fold(registered[i].name) = fold(s)
    \/ \E k \in 1..Len(registered[i].aliases) : fold(registered[i].aliases[k]) = fold(s)

binders(s) == {i \in 1..Len(registered) : binds(i, s)}

\* the case variants of a name among the names looked up
variants(name) == {v \in Queries : lower(v) = lower(name)}

\* C1: immediately after register(C), resolve(C.name) returns C and
\* resolve(a) returns C for every alias a of C; resolve(s) returns not-found
\* for every string s never registered as a name or alias.
C1_RegisterThenResolve ==
    /\ (last.op = "command" /\ last.ok) =>
           /\ get_command(last.command.name) = last.command
           /\ \A k \in 1..Len(last.command.aliases) :
                  get_command(last.command.aliases[k]) = last.command
    /\ \A s \in Queries : binders(s) = {} => get_command(s) = None

\* C2: last registration wins: after any sequence of registrations,
\* resolving a name returns the command of the most recent registration that
\* bound that name, as canonical name or as alias.  An alias refers to its
\* canonical name, so the command of a registration is the table's entry
\* under the canonical name it registered.
C2_LastRegistrationWins ==
    \A s \in Queries :
        binders(s) # {} =>
            LET latest == CHOOSE i \in binders(s) : \A j \in binders(s) : j <= i
            IN  get_command(s) = dict_get(_commands, fold(registered[latest].name))

\* C3: every key of the alias mapping maps to a canonical name that is a key
\* of the primary mapping, and no two keys of the primary mapping are equal
\* under the table's case-folding rule.
C3_TableInvariant ==
    /\ \A i \in 1..Len(_aliases) : dict_has(_commands, _aliases[i].value)
    /\ \A i, j \in 1..Len(_commands) :
           fold(_commands[i].key) = fold(_commands[j].key) => i = j

\* a case-insensitive table with aliases in which a registration overwrote
\* the entry of a case variant of its name
C3_Witness ==
    /\ ~case_sensitive
    /\ Len(_aliases) >= 1
    /\ \E i, j \in 3..Len(registered) :
           /\ i < j
           /\ registered[i].name # registered[j].name
           /\ lower(registered[i].name) = lower(registered[j].name)

\* C4: in a case-insensitive table, after registering a command under a name
\* N, resolve returns that command for every case variant of N; in a
\* case-sensitive table resolve returns it for the exact-case form of N and
\* not-found for every other case variant (that no registration bound).
C4_CaseVariants ==
    (last.op = "command" /\ last.ok) =>
        LET N == last.command.name IN
        IF ~case_sensitive
        THEN \A v \in variants(N) : get_command(v) = last.command
        ELSE /\ get_command(N) = last.command
             /\ \A v \in variants(N) \ {N} : binders(v) = {} => get_command(v) = None

HandlerEvents == {"handler:return", "handler:raise"}
FailureEvents == {"tokenize:error", "empty", "resolve:notfound", "bind:error"}

\* C6: the handler is invoked only after tokenization, name resolution and
\* argument binding have all succeeded, in this order; a dispatch in which
\* tokenization, resolution or binding failed invoked no handler.
C6_HandlerAfterBinding ==
    last.op = "execute" =>
        LET ev == last.outcome.events IN
        /\ \A i \in 1..Len(ev) :
               ev[i] \in HandlerEvents =>
                   /\ i = 4
                   /\ SubSeq(ev, 1, 3) = <<"tokenize:ok", "resolve:ok", "bind:ok">>
        /\ (\E i \in 1..Len(ev) : ev[i] \in FailureEvents) =>
               \A i \in 1..Len(ev) : ev[i] \notin HandlerEvents

\* a dispatch that ended in a binding error
C6_Witness ==
    /\ last.op = "execute"
    /\ last.outcome.raised
    /\ last.outcome.events = <<"tokenize:ok", "resolve:ok", "bind:error">>

\* the suggestions read back from the message of a not-found error
RECURSIVE split_scan(_, _, _, _)
split_scan(h, i, cur, out) ==
    IF i > Len(h) THEN Append(out, cur)
    ELSE IF h[i] = "," /\ i < Len(h) /\ h[i + 1] = " "
    THEN split_scan(h, i + 2, <<>>, Append(out, cur))
    ELSE split_scan(h, i + 1, Append(cur, h[i]), out)

split_hint(h) == IF h = <<>> THEN <<>> ELSE split_scan(h, 1, <<>>, <<>>)

\* C7: a dispatch whose head token does not resolve ends in a not-found
\* error that carries the attempted name and the ordered, possibly empty
\* suggestions computed by suggest for that name; with "fetch" registered
\* the suggestions for "fettch" contain "fetch".
C7_NotFoundCarriesSuggestions ==
    LET split == shlex_split(last.line)
        head == split.tokens[1]
        e == last.outcome.exc
        got == split_hint(e.msg.hint)
    IN  (/\ last.op = "execute"
         /\ split.ok
         /\ split.tokens # <<>>
         /\ get_command(head) = None)
        => /\ last.outcome.raised
           /\ e.type = "CommandNotFoundError"
           /\ e.msg.name = head
           /\ got = find_similar_commands(head, DefaultThreshold)
           /\ (head = s_fettch /\ (dict_has(_commands, s_fetch) \/ dict_has(_aliases, s_fetch)))
                  => \E i \in 1..Len(got) : got[i] = s_fetch

\* the dispatch of "fettch" on a table with the command "fetch"
C7_Witness ==
    /\ last.op = "execute"
    /\ last.line = s_fettch
    /\ dict_has(_commands, s_fetch)
    /\ last.outcome.raised
    /\ last.outcome.exc.type = "CommandNotFoundError"
    /\ last.outcome.exc.msg.hint # <<>>

TypedArgumentErrors ==
    {"FlagValueError", "RequiredArgumentNotPassedException",
     "TooManyTransferredArgsException"}

\* C8: the typed argument errors raised during binding reach the caller of
\* dispatch as their own error kind; a CommandExecutionError with a cause
\* wraps only a failure that is not one of these typed errors.
C8_TypedErrorsSurface ==
    last.op = "execute" =>
        LET ev == last.outcome.events
            e == last.outcome.exc
        IN  /\ (\E i \in 1..Len(ev) : ev[i] = "bind:error") =>
                   last.outcome.raised /\ e.type \in TypedArgumentErrors
            /\ (last.outcome.raised /\ e.type = "CommandExecutionError"
                    /\ e.cause # None) =>
                   e.cause.type \notin TypedArgumentErrors

\* C9: the dispatch of a line with unbalanced quoting ends in the
\* tokenizer's error, surfaced as that error kind and not wrapped in
\* another, with no name resolution and no handler invocation.
C9_TokenizationErrorSurfaced ==
    (/\ last.op = "execute"
     /\ ~shlex_split(last.line).ok
     /\ shlex_split(last.line).error = "No closing quotation") =>
        /\ last.outcome.raised
        /\ last.outcome.exc.type = "ValueError"
        /\ last.outcome.events = <<"tokenize:error">>

\* C10: an empty or all-whitespace line tokenizes to the empty sequence and
\* its dispatch is a no-op: nothing is resolved, no handler is invoked and
\* no error is reported to the caller.
C10_BlankLineNoOp ==
    (last.op = "execute" /\ is_blank(last.line)) =>
        /\ shlex_split(last.line).ok
        /\ shlex_split(last.line).tokens = <<>>
        /\ ~last.outcome.raised
        /\ \A i \in 1..Len(last.outcome.events) :
               last.outcome.events[i] \in {"tokenize:ok", "empty"}

\* how a dispatch ends, as its caller sees it: a result or the class of the
\* error
outcome_kind(o) == IF o.raised THEN o.exc.type ELSE "result"

\* what the caller of the asynchronous entry point gets for a line: the
\* outcome of AsyncApp.execute on the application constructed, or the error
\* of the construction
AsyncDispatch(command_line, behaviour) ==
    IF last.ok
    THEN AsyncApp_execute(command_line, behaviour)
    ELSE Outcome(TRUE, None, last.exc, <<>>)

\* C11: for every table and every line, the asynchronous and the synchronous
\* dispatch entry point end in the same outcome kind (result, not-found,
\* tokenization error, binding error, CommandExecutionError).
C11_SameContract ==
    last.op = "async_init" =>
        \A command_line \in Lines, behaviour \in Behaviours :
            outcome_kind(AsyncDispatch(command_line, behaviour))
                = outcome_kind(execute(command_line, behaviour))

s_download == <<"d", "o", "w", "n", "l", "o", "a", "d">>

\* the dispatch, from the running read loop, of the command that a
\* registration of the coroutine function download produced
deferred_dispatch(reg) ==
    async_try_block(Parsed(TRUE, None, reg.command, <<>>,
                           [k \in {p_url} |-> Value("str", s_fetch)],
                           <<"tokenize:ok", "resolve:ok", "bind:ok">>),
                    "return")

\* C12: a command registered through AsyncApp.command with a coroutine
\* handler and dispatched by AsyncApp.execute from the asynchronous read loop
\* is awaited, and the dispatch result is the value the handler completes
\* with.
C12_DeferredHandlerAwaited ==
    last.op = "async_init" =>
        /\ last.ok
        /\ AsyncApp_command(_commands, _aliases, Len(registered) + 1, s_download,
                            <<>>, "download").ok
        /\ ~deferred_dispatch(AsyncApp_command(_commands, _aliases,
                                               Len(registered) + 1, s_download,
                                               <<>>, "download")).raised

\* the keys of the table, canonical names then aliases
table_keys == dict_keys(_commands) \o dict_keys(_aliases)

\* the similarity of a key of the table to the name looked for
similarity(key) == ratio(key, fold(last.name))

\* C13: suggest returns at most maxResults entries, each a registered
\* canonical name or alias whose similarity to the token is at or above the
\* threshold, ordered by non-increasing similarity and leaving out no key
\* more similar than one returned; it returns the empty sequence when no key
\* reaches the threshold.
C13_SuggestContract ==
    last.op = "find_similar_commands" =>
        /\ Len(last.similar) <= MaxResults
        /\ \A i \in 1..Len(last.similar) :
               /\ \E k \in 1..Len(table_keys) : table_keys[k] = last.similar[i]
               /\ ratio_ge(similarity(last.similar[i]), last.threshold)
        /\ \A i \in 1..(Len(last.similar) - 1) :
               ~ratio_lt(similarity(last.similar[i]), similarity(last.similar[i + 1]))
        /\ \A k \in 1..Len(table_keys) :
               ratio_ge(similarity(table_keys[k]), last.threshold) =>
                   /\ last.similar # <<>>
                   /\ \/ \E i \in 1..Len(last.similar) : last.similar[i] = table_keys[k]
                      \/ ~ratio_lt(similarity(last.similar[Len(last.similar)]),
                                   similarity(table_keys[k]))
        /\ Len(last.similar) < MaxResults =>
               \A k \in 1..Len(table_keys) :
                   ratio_ge(similarity(table_keys[k]), last.threshold) =>
                       \E i \in 1..Len(last.similar) : last.similar[i] = table_keys[k]

\* a call that returned maxResults entries of unequal similarity and left
\* out a key that reaches the threshold
C13_Witness ==
    /\ last.op = "find_similar_commands"
    /\ Len(last.similar) = MaxResults
    /\ ratio_lt(similarity(last.similar[MaxResults]), similarity(last.similar[1]))
    /\ \E k \in 1..Len(table_keys) :
           /\ ratio_ge(similarity(table_keys[k]), last.threshold)
           /\ \A i \in 1..Len(last.similar) : last.similar[i] # table_keys[k]

\* the first registration that bound the key, as name or as alias
first_bound(key) == CHOOSE i \in binders(key) : \A j \in binders(key) : i <= j

\* C14: two candidates returned by suggest with equal similarity to the
\* token appear in registration order, the one registered earlier first.
C14_TiesInRegistrationOrder ==
    last.op = "find_similar_commands" =>
        \A i, j \in 1..Len(last.similar) :
            (i < j /\ ratio_eq(similarity(last.similar[i]), similarity(last.similar[j])))
                => first_bound(last.similar[i]) <= first_bound(last.similar[j])

\* the table holds exactly the names status, stats and start, and stat was
\* looked for at the default threshold
SuggestionExample ==
    /\ last.op = "find_similar_commands"
    /\ last.name = s_stat
    /\ last.threshold = DefaultThreshold
    /\ {_commands[i].key : i \in 1..Len(_commands)} = {s_status, s_stats, s_start}
    /\ _aliases = <<>>

\* the position of x in the sequence s, or 0
position(s, x) ==
    IF \E i \in 1..Len(s) : s[i] = x THEN CHOOSE i \in 1..Len(s) : s[i] = x ELSE 0

\* C15 as stated: with exactly status, stats and start registered, stat at
\* threshold 0.6 gets a non-empty list with status and stats ranked above
\* start.
C15_StatusAndStatsAboveStart ==
    SuggestionExample =>
        /\ last.similar # <<>>
        /\ position(last.similar, s_status) > 0
        /\ position(last.similar, s_stats) > 0
        /\ (position(last.similar, s_start) > 0
               => /\ position(last.similar, s_status) < position(last.similar, s_start)
                  /\ position(last.similar, s_stats) < position(last.similar, s_start))

\* C15 as amended: with exactly status, stats and start registered, stat at
\* threshold 0.6 gets a non-empty list of the three names in which stats and
\* start are both ranked above status.
C15_StatsAndStartAboveStatus ==
    SuggestionExample =>
        /\ Len(last.similar) = 3
        /\ position(last.similar, s_status) > 0
        /\ position(last.similar, s_stats) > 0
        /\ position(last.similar, s_start) > 0
        /\ position(last.similar, s_stats) < position(last.similar, s_status)
        /\ position(last.similar, s_start) < position(last.similar, s_status)

\* the example's call, on a table to which start was added first
C15_Witness ==
    /\ SuggestionExample
    /\ registered[1].name = s_start
    /\ Len(last.similar) = 3

\* the last operation parsed or dispatched a line that tokenizes and whose
\* head token resolves to a command
binding_case ==
    /\ last.op \in {"parse", "execute"}
    /\ shlex_split(last.line).ok
    /\ shlex_split(last.line).tokens # <<>>
    /\ get_command(shlex_split(last.line).tokens[1]) # None

\* the schema of that command and the tokens after the name
last_schema == schema_now(get_command(shlex_split(last.line).tokens[1]).flags)
last_args == Tail(shlex_split(last.line).tokens)

\* the names given by flag tokens, and the positional tokens in order
named_keys(args) == {flag_name(args[i]) : i \in {j \in 1..Len(args) : is_flag_token(args[j])}}
n_positional(args) == Cardinality({j \in 1..Len(args) : ~is_flag_token(args[j])})
nth_positional(args, n) ==
    args[CHOOSE i \in 1..Len(args) :
             /\ ~is_flag_token(args[i])
             /\ Cardinality({j \in 1..i : ~is_flag_token(args[j])}) = n]

\* the rank of parameter i among the parameters not named by a flag token
free_rank(schema, args, i) ==
    Cardinality({j \in 1..i : schema[j].key \notin named_keys(args)})

\* parameter i receives no value: no flag token names it and the positional
\* tokens run out before it
no_value(schema, args, i) ==
    /\ schema[i].key \notin named_keys(args)
    /\ free_rank(schema, args, i) > n_positional(args)

unbound_required(schema, args) ==
    {schema[i].key : i \in {j \in 1..Len(schema) :
        schema[j].flag.required /\ no_value(schema, args, j)}}

\* the outcome of the binding of the last operation: of the parse itself,
\* or of the parse a dispatch made (a binding error reaches the caller of
\* dispatch as the cause of a CommandExecutionError)
binding_failed(type, msg) ==
    IF last.op = "parse"
    THEN ~last.parsed.ok /\ last.parsed.exc.type = type /\ last.parsed.exc.msg = msg
    ELSE /\ last.outcome.raised
         /\ last.outcome.events = <<"tokenize:ok", "resolve:ok", "bind:error">>

\* C16: a binding in which at least one required parameter receives no
\* value fails with RequiredArgumentNotPassedError, however many other flags
\* were supplied, and the error names every missing required parameter.
C16_MissingRequiredAllNamed ==
    (binding_case /\ unbound_required(last_schema, last_args) # {}) =>
        binding_failed("RequiredArgumentNotPassedException",
                       unbound_required(last_schema, last_args))

\* a parse in which one required parameter received no value while a flag
\* token supplied another one
C16_Witness ==
    /\ last.op = "parse"
    /\ last.line = l_fetch_x_a
    /\ ~last.parsed.ok
    /\ last.parsed.exc.type = "RequiredArgumentNotPassedException"

\* the bound arguments of the last operation
last_kwargs ==
    IF last.op = "parse" THEN last.parsed.kwargs ELSE last.outcome.value.kwargs

\* the last operation bound its tokens: the parse succeeded, or the dispatch
\* handed the bound arguments to a handler that returned them
bound_case ==
    /\ binding_case
    /\ \/ last.op = "parse" /\ last.parsed.ok
       \/ /\ last.op = "execute"
          /\ ~last.outcome.raised
          /\ last.outcome.value.py = "result"

\* the tokens can be bound: every flag token names a parameter, no
\* positional token is left over, no required parameter is left without a
\* value and every value is accepted by its parameter's type
bindable(schema, args) ==
    /\ named_keys(args) \subseteq {schema[i].key : i \in 1..Len(schema)}
    /\ n_positional(args)
           <= Cardinality({i \in 1..Len(schema) : schema[i].key \notin named_keys(args)})
    /\ unbound_required(schema, args) = {}
    /\ \A i \in 1..Len(args) :
           is_flag_token(args[i]) =>
               \A k \in 1..Len(schema) :
                   schema[k].key = flag_name(args[i]) =>
                       coerce(schema[k].flag.type, flag_value(args[i])).ok
    /\ \A i \in 1..Len(schema) :
           (schema[i].key \notin named_keys(args)
                /\ free_rank(schema, args, i) <= n_positional(args))
               => coerce(schema[i].flag.type,
                         nth_positional(args, free_rank(schema, args, i))).ok

\* C17: positional tokens go to the parameters in declaration order,
\* skipping every parameter named by a flag token: the bound mapping gives
\* the i-th positional token to the i-th parameter not named by a flag token,
\* and tokens that can be bound this way are bound.
C17_PositionalSkipsNamed ==
    /\ (binding_case /\ last.op = "parse" /\ bindable(last_schema, last_args))
           => last.parsed.ok
    /\ bound_case =>
           \A i \in 1..Len(last_schema) :
               (last_schema[i].key \notin named_keys(last_args)
                    /\ free_rank(last_schema, last_args, i) <= n_positional(last_args))
                   => last_kwargs[last_schema[i].key]
                          = coerce(last_schema[i].flag.type,
                                   nth_positional(last_args,
                                                  free_rank(last_schema, last_args, i))).value

\* a dispatch whose handler got a positional token for its second parameter
\* because a flag token named the first
C17_Witness ==
    /\ bound_case
    /\ last.op = "execute"
    /\ last.line = l_fetch_x_3
    /\ last_kwargs[p_y] = Value("int", 3)
    /\ last_kwargs[p_x] = Value("int", 4)

\* C18: a binding with more positional tokens than the command has declared
\* parameters fails with TooManyArgumentsError, and the handler is not
\* invoked.
C18_SurplusPositionalRejected ==
    (binding_case /\ n_positional(last_args) > Len(last_schema)) =>
        /\ last.op = "parse" =>
               ~last.parsed.ok /\ last.parsed.exc.type = "TooManyTransferredArgsException"
        /\ last.op = "execute" =>
               /\ last.outcome.raised
               /\ \A i \in 1..Len(last.outcome.events) :
                      last.outcome.events[i] \notin HandlerEvents

\* a parse of three positional tokens, none of them an integer, for a
\* command of two integer parameters
C18_Witness ==
    /\ binding_case
    /\ last.op = "parse"
    /\ last.line = l_fetch_a_b_c
    /\ Len(last_schema) = 2
    /\ last.parsed.exc.type = "TooManyTransferredArgsException"

\* the declared parameters of a handler without an implicit first receiver
declared(params) ==
    IF params # <<>> /\ params[1].name = p_self /\ params[1].default = Empty
    THEN Tail(params)
    ELSE params

\* C19: schema synthesis produces exactly one Flag per declared parameter of
\* the handler, in declaration order, skipping an implicit first receiver;
\* for a parameter whose default is not a Flag object, required holds iff
\* the parameter has no default, and default is the declared default or None.
C19_OneFlagPerParameter ==
    (last.op = "command" /\ last.ok) =>
        LET params == declared(signature[last.command.handler])
            flags == last.command.flags
        IN  /\ Len(flags) = Len(params)
            /\ \A i \in 1..Len(flags) :
                   /\ flags[i].key = params[i].name
                   /\ (params[i].default = Empty \/ params[i].default.py # "Flag") =>
                          /\ "id" \notin DOMAIN flags[i].flag
                          /\ flags[i].flag.required <=> (params[i].default = Empty)
                          /\ flags[i].flag.default
                                 = IF params[i].default = Empty THEN None
                                   ELSE params[i].default

\* the registration of repeat(count=2, label=None): two parameters with
\* defaults, one of them None
C19_Witness ==
    /\ last.op = "command"
    /\ last.ok
    /\ last.command.handler = "repeat"
    /\ Len(last.command.flags) = 2
    /\ \E i \in 1..Len(registered) : registered[i].handler = "method"

\* C20: in every reachable state, the Flag stored under parameter name k in
\* the schema of a registered command has the name k.
C20_FlagNamedAsParameter ==
    \A c \in 1..Len(_commands) :
        \A i \in 1..Len(_commands[c].value.flags) :
            flag_of(_commands[c].value.flags[i]).name = _commands[c].value.flags[i].key

\* the schemas of the registered commands, with the Flag objects as they are
schemas == [i \in 1..Len(registered) |-> schema_now(registered[i].flags)]

\* two registrations of the same handler hold equal schemas
repeatable ==
    \A i, j \in 1..Len(registered) :
        registered[i].handler = registered[j].handler => schemas[i] = schemas[j]

\* C21: schema synthesis is pure and repeatable: a registration leaves every
\* Flag object that existed before, and the schema of every command
\* registered before, as they were, and two syntheses of the same handler
\* yield equal schemas.
C21_SynthesisPure ==
    [][last'.op = "command" =>
          /\ flag_objects' = flag_objects
          /\ \A i \in 1..Len(registered) : schemas'[i] = schemas[i]
          /\ repeatable'
      ]_vars

\* the registrations that bound the string s as an alias
alias_binders(s) ==
    {i \in 1..Len(registered) :
        \E k \in 1..Len(registered[i].aliases) : fold(registered[i].aliases[k]) = fold(s)}

\* the registrations under the canonical name of registration i
same_name(i) ==
    {j \in 1..Len(registered) : fold(registered[j].name) = fold(registered[i].name)}

\* the latest of a non-empty set of registrations
latest(S) == CHOOSE i \in S : \A j \in S : j <= i

\* C25: aliases are never unbound: an alias bound to a canonical name N
\* (and not bound to another name since) still resolves after N was
\* registered again with a different alias set, and it resolves to the
\* current entry under N, the command of the latest registration of N.
C25_AliasesNeverUnbound ==
    \A i \in 1..Len(registered) :
        \A k \in 1..Len(registered[i].aliases) :
            /\ get_command(registered[i].aliases[k]) # None
            /\ get_command(registered[i].aliases[k])
                   = registered[latest(same_name(latest(
                         alias_binders(registered[i].aliases[k]))))]

\* an alias of an earlier registration of a name that was registered again
\* with another alias set, and no registration bound the alias since
C25_Witness ==
    \E i, j \in 1..Len(registered) :
        /\ i < j
        /\ j \in same_name(i)
        /\ registered[j].aliases # registered[i].aliases
        /\ \E k \in 1..Len(registered[i].aliases) :
               /\ latest(alias_binders(registered[i].aliases[k])) = i
               /\ get_command(registered[i].aliases[k]) = registered[j]

\* C28: the sequence returned by suggest contains no duplicate entries, also
\* when the same key is registered both as a canonical name and as an alias.
C28_NoDuplicateSuggestions ==
    last.op = "find_similar_commands" =>
        \A i, j \in 1..Len(last.similar) :
            last.similar[i] = last.similar[j] => i = j

\* the last n items of a sequence
suffix(s, n) == SubSeq(s, Len(s) - n + 1, Len(s))

\* C26: after any sequence of add_to_history calls on a HistoryPlugin with
\* max_history >= 0 the history is never longer than max_history and is the
\* most recent recorded lines in arrival order (the oldest is dropped first).
C26_HistoryBounded ==
    plugins # <<>> =>
        /\ Len(plugins[1].history) <= plugins[1].max_history
        /\ plugins[1].history
               = suffix(recorded, Min(plugins[1].max_history, Len(recorded)))

\* more lines were recorded than the history holds
C26_Witness ==
    /\ plugins # <<>>
    /\ last.op = "add_to_history"
    /\ plugins[1].max_history = 2
    /\ Len(recorded) > 2
    /\ plugins[1].history = suffix(recorded, 2)

\* no blank line and no two adjacent equal lines in a history
clean(history) ==
    /\ \A i \in 1..Len(history) : ~is_blank(history[i])
    /\ \A i \in 1..(Len(history) - 1) : history[i] # history[i + 1]

\* C27: after any sequence of add_to_history, clear_history and get_history
\* calls the history holds no blank line and no two adjacent equal lines,
\* and get_history returns a copy: a mutation of the returned list leaves the
\* stored history unchanged.
C27_HistoryClean ==
    [][/\ plugins' # <<>> => clean(plugins'[1].history)
       /\ last'.op = "mutate" => plugins'[1].history = plugins[1].history
      ]_vars

\* a returned list was mutated while the history held two lines
C27_Witness ==
    /\ last.op = "mutate"
    /\ Len(last.before) = 2
    /\ held[last.list].items = <<l_empty>>
    /\ Len(plugins[1].history) = 2

\* how many of the events are among S
count(events, S) == Cardinality({i \in 1..Len(events) : events[i] \in S})

\* C22: within one dispatch cycle the handler is invoked at most once: when
\* it fails it is not invoked again and the failure reaches the caller, once;
\* also when app.execute was wrapped by one or more history plugins.
C22_HandlerAtMostOnce ==
    last.op = "dispatch" =>
        /\ count(last.outcome.events, {"handler:return", "handler:raise"}) <= 1
        /\ count(last.outcome.events, {"handler:raise"}) >= 1 =>
               /\ last.outcome.raised
               /\ last.outcome.exc # None

\* a handler that failed under two history plugins
C22_Witness ==
    /\ last.op = "dispatch"
    /\ Len(plugins) >= 2
    /\ count(last.outcome.events, {"handler:raise"}) = 1
    /\ last.outcome.raised

\* the result or the error of a dispatch
result_of(outcome) ==
    [raised |-> outcome.raised, value |-> outcome.value, exc |-> outcome.exc]

\* every plugin recorded before App.execute began
recorded_first(outcome) ==
    /\ Len(outcome.events) >= Len(plugins)
    /\ \A i \in 1..Len(outcome.events) :
           (outcome.events[i] = "history:add") <=> (i <= Len(plugins))

\* the line is the most recent entry of the history
most_recent(plugin, command_line) ==
    /\ plugin.history # <<>>
    /\ plugin.history[Len(plugin.history)] = command_line

\* C24 as stated: with history plugins installed a dispatch yields the same
\* result or error as without, and the line is recorded before the dispatch
\* whether the dispatch then succeeds or fails.
C24_EveryLineRecorded ==
    last.op = "dispatch" =>
        /\ result_of(last.outcome) = result_of(execute(last.line, last.behaviour))
        /\ recorded_first(last.outcome)
        /\ \A p \in 1..Len(plugins) : most_recent(plugins[p], last.line)

\* C24: with history plugins installed a dispatch yields the same result or
\* error as without; every line that is not blank is recorded before the
\* dispatch, in every plugin with max_history >= 1, whether the dispatch then
\* succeeds or fails.
C24_NonBlankLineRecorded ==
    last.op = "dispatch" =>
        /\ result_of(last.outcome) = result_of(execute(last.line, last.behaviour))
        /\ recorded_first(last.outcome)
        /\ \A p \in 1..Len(plugins) :
               (~is_blank(last.line) /\ plugins[p].max_history >= 1) =>
                   most_recent(plugins[p], last.line)

\* a dispatch that failed on an unknown command, recorded by a plugin
C24_Witness ==
    /\ last.op = "dispatch"
    /\ last.line = s_zz
    /\ last.outcome.raised
    /\ \E p \in 1..Len(plugins) :
           plugins[p].max_history >= 1 /\ most_recent(plugins[p], s_zz)

\* every alias of every command that has a canonical entry is bound
aliases_visible ==
    \A i \in 1..Len(_commands) :
        \A k \in 1..Len(_commands[i].value.aliases) :
            dict_has(_aliases, fold(_commands[i].value.aliases[k]))

\* C23: the primary mapping and the alias mapping of one registration become
\* visible together: a resolve or suggest call running concurrently with a
\* registration never observes the canonical entry of a command present
\* while one of its aliases is not yet bound.
C23_VisibleTogether ==
    last.op \in {"get_command", "suggest"} => aliases_visible

====
